---- MODULE Spec2Model ----
(***************************************************************************)
(* Block lifecycle and transaction execution of chessvm                    *)
(* (chessvm/src/block/mod.rs, chessvm/src/block/tx/mod.rs,                 *)
(* chessvm/src/state/mod.rs).                                              *)
(*                                                                         *)
(* State: the three shared resources of State (the database, the           *)
(* verified-block map, the game table), the lifecycle call in progress     *)
(* with its position, and the result of the last call that returned.      *)
(*                                                                         *)
(* The consensus engine is one sequential caller of verify / accept /      *)
(* reject (all three take &mut self and are awaited by the caller); every  *)
(* await at which a lock is taken is a separate step, and the read-only    *)
(* queries of State run between any two steps.  verify() is called on any  *)
(* block the engine has built or parsed; accept() and reject() are called  *)
(* on blocks the engine can retrieve with get_block.                       *)
(*                                                                         *)
(* Spec and SpecTx are the block lifecycle, with any timestamps and with   *)
(* longer transaction lists.  SpecGame is transaction execution on the     *)
(* game table alone, with every transaction.  SpecConc is two tasks in     *)
(* State::make_move on one game at the same time.  SpecCodec is to_vec     *)
(* followed by from_slice on every block a peer can build.  SpecParse is   *)
(* the lifecycle of blocks that arrive as bytes.  SpecLock is the same     *)
(* operations as concurrent tasks over the three read/write locks, and     *)
(* SpecLockFair adds the fairness of the runtime and of the locks.         *)
(*                                                                         *)
(* Abstractions: an address is a small number (0 is Address::default());   *)
(* bytes are sequences of numbers; sha256 is an injective digest; the      *)
(* chess rules engine (shakmaty) is a position with a side to move and a   *)
(* ply count; the free-form message of a block, read by no lifecycle code, *)
(* is left out; u64 heights are HeightBits wide.                           *)
(***************************************************************************)
EXTENDS Integers, Sequences, FiniteSets, TLC

---------------------------------------------------------------------------
\* Bounds of the model.

\* Addresses are 0..MaxAddr.
MaxAddr == 1
\* Chain heights a block may be built with are 0..MaxHeight, and U64Max.
MaxHeight == 1
\* Longest transaction list of a block, in SpecTx and in Spec.
MaxTxs == 2
MaxChainTxs == 1
\* A game has no legal move left after MaxPly plies.
MaxPly == 2
\* Most block ids known to State (cached or stored) at once.
MaxBlocks == 2
\* The wall clock reads 0..MaxNow.
MaxNow == 1
\* Width in bits of the model's u64.
HeightBits == 3

\* Duration::hours(1), in seconds.
OneHour == 3600

---------------------------------------------------------------------------
\* Values.

Addresses == 0..MaxAddr

\* Address::default()
AddressDefault == 0

\* u64::MAX
U64Max == (2 ^ HeightBits) - 1

Heights == (0..MaxHeight) \cup {U64Max}

\* Block timestamps: the epoch, one hour after it, and a second later.
Timestamps == {0, OneHour, OneHour + 1}

Nows == 0..MaxNow

\* MoveEnum values as submitted: 0 has a token that is no square or role,
\* the others convert.  For the rules engine 1 is a move either side has
\* while the game goes on, 2 is a move no position allows, and 3 is a move of
\* a black piece, which only a position with Black to move allows.
MoveEnums == 0..3

\* ids::Id::empty()
EmptyId == <<>>

\* ids::Id::sha256: injective on the byte strings of the model.
Sha256(bytes) == <<Len(bytes)>> \o bytes

\* An id under which no block is ever known.
UnknownId == Sha256(<<>>)

\* calculate_game_id hashing the two addresses in an order of its own choice.
calculate_game_id_unordered(white, black) ==
    IF white <= black THEN (white * (MaxAddr + 1)) + black
    ELSE (black * (MaxAddr + 1)) + white

\* hash of white ++ black: the pair read as one number, injective.
calculate_game_id(white, black) == (white * (MaxAddr + 1)) + black

GameIds == {calculate_game_id(w, b) : w \in Addresses, b \in Addresses}

---------------------------------------------------------------------------
\* The rules engine, as State uses it.

\* Chess::default()
ChessDefault == [turn |-> "White", ply |-> 0]

\* Position::turn
turn(game) == game.turn

\* Position::is_legal
is_legal(game, mv) ==
    /\ game.ply < MaxPly
    /\ mv = 1 \/ (mv = 3 /\ game.turn = "Black")

\* Position::play, called on legal moves only
play(game, mv) ==
    [turn |-> IF game.turn = "White" THEN "Black" ELSE "White",
     ply  |-> game.ply + 1]

---------------------------------------------------------------------------
\* Transactions.

CreateGame(white, black) == [type |-> "CreateGame", white |-> white, black |-> black]
EndGame(game_id) == [type |-> "EndGame", game_id |-> game_id]
MakeMove(player, game_id, mv) ==
    [type |-> "MakeMove", player |-> player, game_id |-> game_id, mv |-> mv]
Unknown == [type |-> "Unknown"]

\* Transaction: the action and the sender (the other fields are bookkeeping).
Transaction(action, sender) == [action |-> action, sender |-> sender]

\* convert_move: fails on a token that is no square or role.
convert_move(mv) == IF mv = 0 THEN [ok |-> FALSE, mv |-> mv] ELSE [ok |-> TRUE, mv |-> mv]

\* The moves convert_move gives.
Moves == {convert_move(mv).mv : mv \in {m \in MoveEnums : convert_move(m).ok}}

\* create_new_game that leaves an existing entry as it is.
create_new_game_keeps(gs, white, black) ==
    LET game_id == calculate_game_id(white, black)
        new_game_state == [game |-> ChessDefault, white |-> white, black |-> black]
    IN  [games |-> [g \in (DOMAIN gs) \cup {game_id} |->
                        IF g \in DOMAIN gs THEN gs[g] ELSE new_game_state],
         res |-> "ok"]

\* State::create_new_game on game table gs: the new table and the result.
create_new_game(gs, white, black) ==
    LET game_id == calculate_game_id(white, black)
        new_game_state == [game |-> ChessDefault, white |-> white, black |-> black]
    IN  [games |-> [g \in (DOMAIN gs) \cup {game_id} |->
                        IF g = game_id THEN new_game_state ELSE gs[g]],
         res |-> "ok"]

\* make_move without the turn check.
make_move_any_player(gs, player, game_id, mv) ==
    IF game_id \notin DOMAIN gs
    THEN [games |-> gs, res |-> "GameNotFound"]
    ELSE LET curr_game == gs[game_id]
         IN  IF ~is_legal(curr_game.game, mv)
             THEN [games |-> gs, res |-> "ok"]
             ELSE [games |-> [gs EXCEPT ![game_id].game = play(curr_game.game, mv)],
                   res |-> "ok"]

\* make_move without the legality check.
make_move_plays_illegal(gs, player, game_id, mv) ==
    IF game_id \notin DOMAIN gs
    THEN [games |-> gs, res |-> "GameNotFound"]
    ELSE LET curr_game == gs[game_id]
             mover == IF turn(curr_game.game) = "White"
                      THEN curr_game.white ELSE curr_game.black
         IN  IF player # mover
             THEN [games |-> gs, res |-> "NotPlayersTurn"]
             ELSE [games |-> [gs EXCEPT ![game_id].game = play(curr_game.game, mv)],
                   res |-> "ok"]

\* make_move without the write back.
make_move_no_write_back(gs, player, game_id, mv) ==
    IF game_id \notin DOMAIN gs
    THEN [games |-> gs, res |-> "GameNotFound"]
    ELSE LET curr_game == gs[game_id]
             mover == IF turn(curr_game.game) = "White"
                      THEN curr_game.white ELSE curr_game.black
         IN  IF player # mover
             THEN [games |-> gs, res |-> "NotPlayersTurn"]
             ELSE [games |-> gs, res |-> "ok"]

\* make_move that takes a missing game for one with nothing to do.
make_move_missing_ok(gs, player, game_id, mv) ==
    IF game_id \notin DOMAIN gs
    THEN [games |-> gs, res |-> "ok"]
    ELSE LET curr_game == gs[game_id]
             mover == IF turn(curr_game.game) = "White"
                      THEN curr_game.white ELSE curr_game.black
         IN  IF player # mover
             THEN [games |-> gs, res |-> "NotPlayersTurn"]
             ELSE IF ~is_legal(curr_game.game, mv)
             THEN [games |-> gs, res |-> "ok"]
             ELSE [games |-> [gs EXCEPT ![game_id].game = play(curr_game.game, mv)],
                   res |-> "ok"]

\* make_move that writes the game back with the two players exchanged.
make_move_swaps_players(gs, player, game_id, mv) ==
    IF game_id \notin DOMAIN gs
    THEN [games |-> gs, res |-> "GameNotFound"]
    ELSE LET curr_game == gs[game_id]
             mover == IF turn(curr_game.game) = "White"
                      THEN curr_game.white ELSE curr_game.black
         IN  IF player # mover
             THEN [games |-> gs, res |-> "NotPlayersTurn"]
             ELSE IF ~is_legal(curr_game.game, mv)
             THEN [games |-> gs, res |-> "ok"]
             ELSE [games |-> [gs EXCEPT ![game_id] =
                                [game  |-> play(curr_game.game, mv),
                                 white |-> curr_game.black,
                                 black |-> curr_game.white]],
                   res |-> "ok"]

\* State::make_move on game table gs with a converted move.
make_move(gs, player, game_id, mv) ==
    IF game_id \notin DOMAIN gs
    THEN [games |-> gs, res |-> "GameNotFound"]
    ELSE LET curr_game == gs[game_id]
             mover == IF turn(curr_game.game) = "White"
                      THEN curr_game.white ELSE curr_game.black
         IN  IF player # mover
             THEN [games |-> gs, res |-> "NotPlayersTurn"]
             ELSE IF ~is_legal(curr_game.game, mv)
             THEN [games |-> gs, res |-> "ok"]
             ELSE [games |-> [gs EXCEPT ![game_id].game = play(curr_game.game, mv)],
                   res |-> "ok"]

\* end_game that removes a game only when it has no move left.
end_game_only_finished(gs, game_id) ==
    IF game_id \notin DOMAIN gs \/ gs[game_id].game.ply < MaxPly
    THEN [games |-> gs, res |-> "GameNotFound"]
    ELSE [games |-> [g \in (DOMAIN gs) \ {game_id} |-> gs[g]], res |-> "ok"]

\* end_game that empties the table.
end_game_all(gs, game_id) ==
    IF game_id \notin DOMAIN gs
    THEN [games |-> gs, res |-> "GameNotFound"]
    ELSE [games |-> <<>>, res |-> "ok"]

\* State::end_game on game table gs.
end_game(gs, game_id) ==
    IF game_id \notin DOMAIN gs
    THEN [games |-> gs, res |-> "GameNotFound"]
    ELSE [games |-> [g \in (DOMAIN gs) \ {game_id} |-> gs[g]], res |-> "ok"]

\* tx::make_move: convert the move, then State::make_move.
tx_make_move(gs, player, game_id, mv) ==
    LET conv == convert_move(mv)
    IN  IF ~conv.ok
        THEN [games |-> gs, res |-> "ConversionError"]
        ELSE make_move(gs, player, game_id, conv.mv)

\* execute taking the sender of the transaction for the player of a MakeMove.
execute_by_sender(gs, tx) ==
    CASE tx.action.type = "Unknown" -> [games |-> gs, res |-> "ok"]
      [] tx.action.type = "CreateGame" ->
            create_new_game(gs, tx.action.white, tx.action.black)
      [] tx.action.type = "EndGame" -> end_game(gs, tx.action.game_id)
      [] tx.action.type = "MakeMove" ->
            tx_make_move(gs, tx.sender, tx.action.game_id, tx.action.mv)

\* execute that empties the game table on an Unknown action.
execute_unknown_clears(gs, tx) ==
    CASE tx.action.type = "Unknown" -> [games |-> <<>>, res |-> "ok"]
      [] tx.action.type = "CreateGame" ->
            create_new_game(gs, tx.action.white, tx.action.black)
      [] tx.action.type = "EndGame" -> end_game(gs, tx.action.game_id)
      [] tx.action.type = "MakeMove" ->
            tx_make_move(gs, tx.action.player, tx.action.game_id, tx.action.mv)

\* Transaction::execute on game table gs.
execute(gs, tx) ==
    CASE tx.action.type = "Unknown" -> [games |-> gs, res |-> "ok"]
      [] tx.action.type = "CreateGame" ->
            create_new_game(gs, tx.action.white, tx.action.black)
      [] tx.action.type = "EndGame" -> end_game(gs, tx.action.game_id)
      [] tx.action.type = "MakeMove" ->
            tx_make_move(gs, tx.action.player, tx.action.game_id, tx.action.mv)

---------------------------------------------------------------------------
\* Blocks and their bytes.

\* The action of a transaction in four numbers (the sender is #[serde(skip)]).
EncodeAction(a) ==
    CASE a.type = "Unknown"    -> <<0, 0, 0, 0>>
      [] a.type = "CreateGame" -> <<1, a.white, a.black, 0>>
      [] a.type = "EndGame"    -> <<2, a.game_id, 0, 0>>
      [] a.type = "MakeMove"   -> <<3, a.player, a.game_id, a.mv>>

DecodeAction(c) ==
    CASE c[1] = 0 -> Unknown
      [] c[1] = 1 -> CreateGame(c[2], c[3])
      [] c[1] = 2 -> EndGame(c[2])
      [] c[1] = 3 -> MakeMove(c[2], c[3], c[4])

\* Block::to_vec: the serialized fields are parent_id, height, timestamp and
\* the transactions; id, status, bytes and state are #[serde(skip)].
to_vec(b) ==
    LET n == Len(b.txs)
        body == [k \in 1..(4 * n) |->
                    EncodeAction(b.txs[((k - 1) \div 4) + 1].action)[((k - 1) % 4) + 1]]
    IN  <<b.height, b.timestamp, n>> \o body \o b.parent_id

\* A whitespace byte: serde_json::from_slice skips whitespace before the value,
\* so the same block has serializations other than the one to_vec produces.
Whitespace == -1

RECURSIVE skip_whitespace(_)
skip_whitespace(d) ==
    IF d # <<>> /\ Head(d) = Whitespace THEN skip_whitespace(Tail(d)) ELSE d

\* Block::from_slice: the fields read back, the skipped ones at their default,
\* the bytes kept as given and the id computed from the bytes given.
from_slice(d) ==
    LET c == skip_whitespace(d)
        n == c[3]
    IN  [parent_id |-> SubSeq(c, 4 + (4 * n), Len(c)),
         height    |-> c[1],
         timestamp |-> c[2],
         txs       |-> [i \in 1..n |->
                          Transaction(DecodeAction(SubSeq(c, 4 * i, (4 * i) + 3)),
                                      AddressDefault)],
         id        |-> Sha256(d),
         status    |-> "Processing"]

\* Block::try_new
try_new(parent_id, height, timestamp, txs, status) ==
    LET b == [parent_id |-> parent_id, height |-> height,
              timestamp |-> timestamp, txs |-> txs]
    IN  [parent_id |-> parent_id, height |-> height, timestamp |-> timestamp,
         txs |-> txs, id |-> Sha256(to_vec(b)), status |-> status]

\* Block::set_status
set_status(b, status) == [b EXCEPT !.status = status]

---------------------------------------------------------------------------
\* The database records of State.

STATUS_PREFIX == 0

DELIMITER == 47

\* b"last_accepted_block"
LAST_ACCEPTED_BLOCK_KEY ==
    <<108, 97, 115, 116, 95, 97, 99, 99, 101, 112, 116, 101, 100, 95,
      98, 108, 111, 99, 107>>

block_with_status_key(blk_id) == <<STATUS_PREFIX, DELIMITER>> \o blk_id

StatusCodes == <<"Processing", "Accepted", "Rejected">>

\* BlockWithStatus::encode: the status, then block_bytes.
encode(block_bytes, status) ==
    <<CHOOSE c \in 1..Len(StatusCodes) : StatusCodes[c] = status>> \o block_bytes

\* BlockWithStatus::from_slice
bws_from_slice(d) == [block_bytes |-> Tail(d), status |-> StatusCodes[Head(d)]]

\* write_block that also makes the block the last accepted one.
write_block_moves_pointer(d, block) ==
    LET key == block_with_status_key(block.id)
        blk_status_bytes == encode(to_vec(block), block.status)
    IN  [k \in (DOMAIN d) \cup {key, LAST_ACCEPTED_BLOCK_KEY} |->
            IF k = key THEN blk_status_bytes
            ELSE IF k = LAST_ACCEPTED_BLOCK_KEY THEN block.id
            ELSE d[k]]

\* write_block that puts nothing.
write_block_dropped(d, block) == d

\* State::write_block on database d: the record put under the block's key.
write_block(d, block) ==
    LET key == block_with_status_key(block.id)
        blk_status_bytes == encode(to_vec(block), block.status)
    IN  [k \in (DOMAIN d) \cup {key} |-> IF k = key THEN blk_status_bytes ELSE d[k]]

\* set_last_accepted_block with the put dropped.
set_last_accepted_block_dropped(d, blk_id) == d

\* State::set_last_accepted_block on database d.
set_last_accepted_block(d, blk_id) ==
    [k \in (DOMAIN d) \cup {LAST_ACCEPTED_BLOCK_KEY} |->
        IF k = LAST_ACCEPTED_BLOCK_KEY THEN blk_id ELSE d[k]]

\* has_last_accepted_block answering for any key of the database.
has_last_accepted_block_any_key(d) == DOMAIN d # {}

\* State::has_last_accepted_block
has_last_accepted_block(d) == LAST_ACCEPTED_BLOCK_KEY \in DOMAIN d

\* State::get_last_accepted_block_id: the empty id when the key is not found.
get_last_accepted_block_id(d) ==
    IF LAST_ACCEPTED_BLOCK_KEY \in DOMAIN d THEN d[LAST_ACCEPTED_BLOCK_KEY] ELSE EmptyId

\* State::add_verified on the verified map vb.
add_verified(vb, block) ==
    [i \in (DOMAIN vb) \cup {block.id} |-> IF i = block.id THEN block ELSE vb[i]]

\* remove_verified that removes nothing.
remove_verified_kept(vb, blk_id) == vb

\* State::remove_verified
remove_verified(vb, blk_id) == [i \in (DOMAIN vb) \ {blk_id} |-> vb[i]]

\* State::has_verified
has_verified(vb, blk_id) == blk_id \in DOMAIN vb

\* get_block looking in the database first, then in the verified map.
get_block_store_first(vb, d, blk_id) ==
    IF block_with_status_key(blk_id) \in DOMAIN d
    THEN LET blk_status == bws_from_slice(d[block_with_status_key(blk_id)])
         IN  [ok |-> TRUE,
              blk |-> set_status(from_slice(blk_status.block_bytes), blk_status.status)]
    ELSE IF blk_id \in DOMAIN vb
    THEN [ok |-> TRUE, blk |-> vb[blk_id]]
    ELSE [ok |-> FALSE]

\* State::get_block: the verified map first, then the database.
get_block(vb, d, blk_id) ==
    IF blk_id \in DOMAIN vb
    THEN [ok |-> TRUE, blk |-> vb[blk_id]]
    ELSE IF block_with_status_key(blk_id) \notin DOMAIN d
    THEN [ok |-> FALSE]
    ELSE LET blk_status == bws_from_slice(d[block_with_status_key(blk_id)])
         IN  [ok |-> TRUE,
              blk |-> set_status(from_slice(blk_status.block_bytes), blk_status.status)]

\* self.height - 1 on u64 in a build without overflow checks.
wrapping_sub1(h) == IF h = 0 THEN U64Max ELSE h - 1

\* verify with the clock check off by one (> for >=).
verify_clock_off_by_one(vb, d, self, now, checked) ==
    IF self.height = 0 /\ self.parent_id = EmptyId
    THEN [res |-> "ok", vb |-> add_verified(vb, self)]
    ELSE IF get_block(vb, d, self.id).ok
    THEN [res |-> "ok", vb |-> vb]
    ELSE LET prnt == get_block(vb, d, self.parent_id)
         IN  IF ~prnt.ok
             THEN [res |-> "NotFound", vb |-> vb]
             ELSE IF self.height = 0 /\ checked
             THEN [res |-> "panic", vb |-> vb]
             ELSE IF prnt.blk.height # wrapping_sub1(self.height)
             THEN [res |-> "HeightMismatch", vb |-> vb]
             ELSE IF prnt.blk.timestamp > self.timestamp
             THEN [res |-> "ParentTimestamp", vb |-> vb]
             ELSE IF self.timestamp > now + OneHour
             THEN [res |-> "FutureTimestamp", vb |-> vb]
             ELSE [res |-> "ok", vb |-> add_verified(vb, self)]

\* verify that records the block before the parent checks.
verify_adds_first(vb, d, self, now, checked) ==
    IF self.height = 0 /\ self.parent_id = EmptyId
    THEN [res |-> "ok", vb |-> add_verified(vb, self)]
    ELSE IF get_block(vb, d, self.id).ok
    THEN [res |-> "ok", vb |-> vb]
    ELSE LET prnt == get_block(vb, d, self.parent_id)
             added == add_verified(vb, self)
         IN  IF ~prnt.ok
             THEN [res |-> "NotFound", vb |-> vb]
             ELSE IF self.height = 0 /\ checked
             THEN [res |-> "panic", vb |-> vb]
             ELSE IF prnt.blk.height # wrapping_sub1(self.height)
             THEN [res |-> "HeightMismatch", vb |-> added]
             ELSE IF prnt.blk.timestamp > self.timestamp
             THEN [res |-> "ParentTimestamp", vb |-> added]
             ELSE IF self.timestamp >= now + OneHour
             THEN [res |-> "FutureTimestamp", vb |-> added]
             ELSE [res |-> "ok", vb |-> added]

\* verify with the clock check applied to genesis-shaped blocks too.
verify_genesis_clock(vb, d, self, now, checked) ==
    IF self.height = 0 /\ self.parent_id = EmptyId
    THEN IF self.timestamp >= now + OneHour
         THEN [res |-> "FutureTimestamp", vb |-> vb]
         ELSE [res |-> "ok", vb |-> add_verified(vb, self)]
    ELSE IF get_block(vb, d, self.id).ok
    THEN [res |-> "ok", vb |-> vb]
    ELSE LET prnt == get_block(vb, d, self.parent_id)
         IN  IF ~prnt.ok
             THEN [res |-> "NotFound", vb |-> vb]
             ELSE IF self.height = 0 /\ checked
             THEN [res |-> "panic", vb |-> vb]
             ELSE IF prnt.blk.height # wrapping_sub1(self.height)
             THEN [res |-> "HeightMismatch", vb |-> vb]
             ELSE IF prnt.blk.timestamp > self.timestamp
             THEN [res |-> "ParentTimestamp", vb |-> vb]
             ELSE IF self.timestamp >= now + OneHour
             THEN [res |-> "FutureTimestamp", vb |-> vb]
             ELSE [res |-> "ok", vb |-> add_verified(vb, self)]

\* Block::verify of block self at wall-clock time now; checked is whether the
\* build panics on arithmetic overflow.  The result and the verified map after.
verify(vb, d, self, now, checked) ==
    IF self.height = 0 /\ self.parent_id = EmptyId
    THEN [res |-> "ok", vb |-> add_verified(vb, self)]
    ELSE IF get_block(vb, d, self.id).ok
    THEN [res |-> "ok", vb |-> vb]
    ELSE LET prnt == get_block(vb, d, self.parent_id)
         IN  IF ~prnt.ok
             THEN [res |-> "NotFound", vb |-> vb]
             ELSE IF self.height = 0 /\ checked
             THEN [res |-> "panic", vb |-> vb]
             ELSE IF prnt.blk.height # wrapping_sub1(self.height)
             THEN [res |-> "HeightMismatch", vb |-> vb]
             ELSE IF prnt.blk.timestamp > self.timestamp
             THEN [res |-> "ParentTimestamp", vb |-> vb]
             ELSE IF self.timestamp >= now + OneHour
             THEN [res |-> "FutureTimestamp", vb |-> vb]
             ELSE [res |-> "ok", vb |-> add_verified(vb, self)]

---------------------------------------------------------------------------
\* The state.

VARIABLES
    db,               \* State.db: key -> value
    verified_blocks,  \* State.verified_blocks: block id -> Block
    game_states,      \* State.game_states: game id -> GameState
    call,             \* the accept / reject call in progress: the block object,
                      \* the position, and the game table when it started
    ret               \* the call that returned last, if none has started since:
                      \* operation, result, status and id of the block object
                      \* (the empty id for a block State does not know after
                      \* the call), and for verify what the call was given

vars == <<db, verified_blocks, game_states, call, ret>>

Idle == [op |-> "idle"]

\* The input record of a call that is no verify.
NoInput ==
    [known |-> FALSE, genesis |-> FALSE, parent |-> FALSE,
     height |-> FALSE, time |-> FALSE, clock |-> FALSE, future |-> FALSE,
     zero |-> FALSE]

\* The return of accept or reject on block object self; at is the place in
\* the list of the transaction whose error is returned, 0 when none failed.
Return(op, res, self, at) ==
    [op |-> op, res |-> res, status |-> self.status, id |-> self.id,
     pre |-> NoInput, at |-> at]

\* No call has returned since the last one started.
NoReturn ==
    [op |-> "none", res |-> "none", status |-> "none", id |-> EmptyId,
     pre |-> NoInput, at |-> 0]

\* State::default(): an empty memdb and two empty maps.
Init ==
    /\ db = <<>>
    /\ verified_blocks = <<>>
    /\ game_states = <<>>
    /\ call = Idle
    /\ ret = NoReturn

\* The ids of the block records in database d.
StoredIds(d) == {SubSeq(k, 3, Len(k)) : k \in {x \in DOMAIN d : x # LAST_ACCEPTED_BLOCK_KEY}}

\* The ids get_block finds.
KnownIds == (DOMAIN verified_blocks) \cup StoredIds(db)

\* The block objects the engine gets from State.
KnownBlocks == {get_block(verified_blocks, db, id).blk : id \in KnownIds}

---------------------------------------------------------------------------
\* The blocks the engine builds.

\* The transactions of any block: those one could submit through the chain
\* handlers (CreateGame sent by white, MakeMove by the player), EndGame with
\* any sender, and Unknown.
Transactions ==
    {Transaction(CreateGame(w, b), w) : w \in Addresses, b \in Addresses}
    \cup {Transaction(MakeMove(p, g, m), p) : p \in Addresses, g \in GameIds, m \in MoveEnums}
    \cup {Transaction(EndGame(g), s) : g \in GameIds, s \in Addresses}
    \cup {Transaction(Unknown, AddressDefault)}

\* The transactions of the blocks built here: the creation of the game of
\* white 0 against black 1, and a move of white in it.
BlockTransactions ==
    {Transaction(CreateGame(0, 1), 0),
     Transaction(MakeMove(0, calculate_game_id(0, 1), 1), 0)}

\* The transaction lists of length at most n.
TxLists(n) == UNION {[1..k -> BlockTransactions] : k \in 0..n}

\* Blocks built with try_new on any parent id State knows, the empty id or an
\* id it does not know, with a timestamp of TS and the transactions of TL.
NewBlocks(TS, TL) ==
    {try_new(p, h, t, x, "Processing") :
        p \in {EmptyId, UnknownId} \cup KnownIds,
        h \in Heights, t \in TS, x \in TL}

---------------------------------------------------------------------------
\* Block::verify.  It changes nothing before its last await, so it is one step.

\* What the call was given, for the record of the return: whether the block's
\* id was retrievable, whether the block is genesis-shaped, whether its parent
\* is retrievable, how the two compare in height and time and the block's
\* timestamp with the clock, and whether the timestamp is more than one hour
\* after the clock.
VerifyInput(vb, d, self, now) ==
    LET prnt == get_block(vb, d, self.parent_id)
    IN  [known   |-> get_block(vb, d, self.id).ok,
         genesis |-> self.height = 0 /\ self.parent_id = EmptyId,
         parent  |-> prnt.ok,
         height  |-> prnt.ok /\ prnt.blk.height + 1 = self.height,
         time    |-> prnt.ok /\ prnt.blk.timestamp <= self.timestamp,
         clock   |-> self.timestamp < now + OneHour,
         future  |-> self.timestamp > now + OneHour,
         zero    |-> self.height = 0]

\* The builds to consider for a block: height - 1 overflows at height 0 only.
Builds(self) == IF self.height = 0 THEN BOOLEAN ELSE {FALSE}

Verify(TS, TL) ==
    /\ call = Idle
    /\ \E self \in NewBlocks(TS, TL) :
          /\ self.id \in KnownIds \/ Cardinality(KnownIds) < MaxBlocks
          /\ \E now \in Nows, checked \in Builds(self) :
                LET r == verify(verified_blocks, db, self, now, checked)
                IN  /\ verified_blocks' = r.vb
                    /\ ret' = [op |-> "verify", res |-> r.res, status |-> self.status,
                               id |-> IF get_block(r.vb, db, self.id).ok
                                      THEN self.id ELSE EmptyId,
                               pre |-> VerifyInput(verified_blocks, db, self, now),
                               at |-> 0]
    /\ UNCHANGED <<db, game_states, call>>

---------------------------------------------------------------------------
\* Block::accept, one step per await.

\* set_status(Accepted) and the transaction context.
AcceptBegin ==
    /\ call = Idle
    /\ \E self \in KnownBlocks :
          call' = [op |-> "accept", self |-> set_status(self, "Accepted"),
                   pc |-> "tx", i |-> 1, gs0 |-> game_states]
    /\ ret' = NoReturn
    /\ UNCHANGED <<db, verified_blocks, game_states>>

\* The loop of accept over the first n transactions of txs, from game table
\* gs: each executed on the table the one before left, up to the first error.
RECURSIVE ExecPrefix(_, _, _)
ExecPrefix(gs, txs, n) ==
    IF n = 0
    THEN [games |-> gs, res |-> "ok"]
    ELSE LET before == ExecPrefix(gs, txs, n - 1)
         IN  IF before.res # "ok" THEN before ELSE execute(before.games, txs[n])

\* AcceptTx taking the transactions from the back of the list.
AcceptTx_reversed ==
    /\ call.op = "accept" /\ call.pc = "tx" /\ call.i <= Len(call.self.txs)
    /\ LET r == execute(game_states, call.self.txs[(Len(call.self.txs) + 1) - call.i])
       IN  /\ game_states' = r.games
           /\ IF r.res = "ok"
              THEN /\ call' = [call EXCEPT !.i = call.i + 1]
                   /\ ret' = ret
              ELSE /\ call' = Idle
                   /\ ret' = Return("accept", r.res, call.self, call.i)
    /\ UNCHANGED <<db, verified_blocks>>

\* AcceptTx evicting the block from the verified map when a transaction fails.
AcceptTx_evicts ==
    /\ call.op = "accept" /\ call.pc = "tx" /\ call.i <= Len(call.self.txs)
    /\ LET r == execute(game_states, call.self.txs[call.i])
       IN  /\ game_states' = r.games
           /\ IF r.res = "ok"
              THEN /\ call' = [call EXCEPT !.i = call.i + 1]
                   /\ ret' = ret
                   /\ verified_blocks' = verified_blocks
              ELSE /\ call' = Idle
                   /\ ret' = Return("accept", r.res, call.self, call.i)
                   /\ verified_blocks' = remove_verified(verified_blocks, call.self.id)
    /\ UNCHANGED db

\* AcceptTx restoring the game table of the call's start when a transaction
\* fails.
AcceptTx_rollback ==
    /\ call.op = "accept" /\ call.pc = "tx" /\ call.i <= Len(call.self.txs)
    /\ LET r == execute(game_states, call.self.txs[call.i])
       IN  IF r.res = "ok"
           THEN /\ game_states' = r.games
                /\ call' = [call EXCEPT !.i = call.i + 1]
                /\ ret' = ret
           ELSE /\ game_states' = call.gs0
                /\ call' = Idle
                /\ ret' = Return("accept", r.res, call.self, call.i)
    /\ UNCHANGED <<db, verified_blocks>>

\* tx.execute(..).await? for the next transaction of the list.
AcceptTx ==
    /\ call.op = "accept" /\ call.pc = "tx" /\ call.i <= Len(call.self.txs)
    /\ LET r == execute(game_states, call.self.txs[call.i])
       IN  /\ game_states' = r.games
           /\ IF r.res = "ok"
              THEN /\ call' = [call EXCEPT !.i = call.i + 1]
                   /\ ret' = ret
              ELSE /\ call' = Idle
                   /\ ret' = Return("accept", r.res, call.self, call.i)
    /\ UNCHANGED <<db, verified_blocks>>

\* self.state.write_block(..).await?; the put may fail.
AcceptWrite ==
    /\ call.op = "accept" /\ call.pc = "tx" /\ call.i > Len(call.self.txs)
    /\ \E put_fails \in BOOLEAN :
          IF put_fails
          THEN /\ call' = Idle
               /\ ret' = Return("accept", "PutFailed", call.self, 0)
               /\ db' = db
          ELSE /\ db' = write_block(db, call.self)
               /\ call' = [call EXCEPT !.pc = "last"]
               /\ ret' = ret
    /\ UNCHANGED <<verified_blocks, game_states>>

\* self.state.set_last_accepted_block(..).await?
AcceptSetLast ==
    /\ call.op = "accept" /\ call.pc = "last"
    /\ \E put_fails \in BOOLEAN :
          IF put_fails
          THEN /\ call' = Idle
               /\ ret' = Return("accept", "PutFailed", call.self, 0)
               /\ db' = db
          ELSE /\ db' = set_last_accepted_block(db, call.self.id)
               /\ call' = [call EXCEPT !.pc = "remove"]
               /\ ret' = ret
    /\ UNCHANGED <<verified_blocks, game_states>>

\* self.state.remove_verified(..).await; Ok(())
AcceptRemove ==
    /\ call.op = "accept" /\ call.pc = "remove"
    /\ verified_blocks' = remove_verified(verified_blocks, call.self.id)
    /\ call' = Idle
    /\ ret' = Return("accept", "ok", call.self, 0)
    /\ UNCHANGED <<db, game_states>>

---------------------------------------------------------------------------
\* Block::reject.

RejectBegin ==
    /\ call = Idle
    /\ \E self \in KnownBlocks :
          call' = [op |-> "reject", self |-> set_status(self, "Rejected"),
                   pc |-> "write", i |-> 0, gs0 |-> game_states]
    /\ ret' = NoReturn
    /\ UNCHANGED <<db, verified_blocks, game_states>>

\* RejectWrite executing the block's transactions as accept does.
RejectWrite_executes ==
    /\ call.op = "reject" /\ call.pc = "write"
    /\ db' = write_block(db, call.self)
    /\ game_states' = ExecPrefix(game_states, call.self.txs, Len(call.self.txs)).games
    /\ call' = [call EXCEPT !.pc = "remove"]
    /\ UNCHANGED <<verified_blocks, ret>>

\* self.state.write_block(..).await?
RejectWrite ==
    /\ call.op = "reject" /\ call.pc = "write"
    /\ \E put_fails \in BOOLEAN :
          IF put_fails
          THEN /\ call' = Idle
               /\ ret' = Return("reject", "PutFailed", call.self, 0)
               /\ db' = db
          ELSE /\ db' = write_block(db, call.self)
               /\ call' = [call EXCEPT !.pc = "remove"]
               /\ ret' = ret
    /\ UNCHANGED <<verified_blocks, game_states>>

RejectRemove ==
    /\ call.op = "reject" /\ call.pc = "remove"
    /\ verified_blocks' = remove_verified(verified_blocks, call.self.id)
    /\ call' = Idle
    /\ ret' = Return("reject", "ok", call.self, 0)
    /\ UNCHANGED <<db, game_states>>

---------------------------------------------------------------------------
\* The queries of State, each one read under its lock.

\* State::get_game
get_game(gs, game_id) ==
    IF game_id \in DOMAIN gs THEN [some |-> TRUE, game |-> gs[game_id].game]
    ELSE [some |-> FALSE]

\* State::game_exists
game_exists(gs, game_id) == game_id \in DOMAIN gs

\* A query holds only read locks: it returns what the operator above gives in
\* the state it runs in and changes nothing.
GetBlock ==
    /\ \E blk_id \in KnownIds \cup {UnknownId} :
          get_block(verified_blocks, db, blk_id).ok \in BOOLEAN
    /\ UNCHANGED vars

GetGame ==
    /\ \E game_id \in GameIds : get_game(game_states, game_id).some \in BOOLEAN
    /\ UNCHANGED vars

GameExists ==
    /\ \E game_id \in GameIds : game_exists(game_states, game_id) \in BOOLEAN
    /\ UNCHANGED vars

HasLastAccepted ==
    /\ has_last_accepted_block(db) \in BOOLEAN
    /\ UNCHANGED vars

GetLastAcceptedId ==
    /\ Len(get_last_accepted_block_id(db)) >= 0
    /\ UNCHANGED vars

---------------------------------------------------------------------------

\* The engine builds blocks with any timestamp and at most MaxChainTxs
\* transactions.
Next ==
    \/ Verify(Timestamps, TxLists(MaxChainTxs))
    \/ AcceptBegin
    \/ AcceptTx
    \/ AcceptWrite
    \/ AcceptSetLast
    \/ AcceptRemove
    \/ RejectBegin
    \/ RejectWrite
    \/ RejectRemove
    \/ GetBlock
    \/ GetGame
    \/ GameExists
    \/ HasLastAccepted
    \/ GetLastAcceptedId

Spec == Init /\ [][Next]_vars

\* The engine builds blocks with timestamp 0 and at most MaxTxs transactions.
NextTx ==
    \/ Verify({0}, TxLists(MaxTxs))
    \/ AcceptBegin
    \/ AcceptTx
    \/ AcceptWrite
    \/ AcceptSetLast
    \/ AcceptRemove
    \/ RejectBegin
    \/ RejectWrite
    \/ RejectRemove
    \/ GetBlock
    \/ GetGame
    \/ GameExists
    \/ HasLastAccepted
    \/ GetLastAcceptedId

SpecTx == Init /\ [][NextTx]_vars

---------------------------------------------------------------------------
\* Transaction execution on the game table, the block around it left out:
\* accept() runs the transactions of the blocks one after the other, and
\* execute reads nothing of the block.

\* The return of an execute of tx on game table gs0.
Executed(res, tx, gs0) ==
    [op |-> "execute", res |-> res, status |-> "none", id |-> EmptyId,
     pre |-> NoInput, at |-> 0, tx |-> tx, gs0 |-> gs0]

\* Transaction::execute of a transaction of TX.
Execute(TX) ==
    /\ call = Idle
    /\ \E tx \in TX :
          LET r == execute(game_states, tx)
          IN  /\ game_states' = r.games
              /\ ret' = Executed(r.res, tx, game_states)
    /\ UNCHANGED <<db, verified_blocks, call>>

\* Any sequence of transactions.
NextGame ==
    \/ Execute(Transactions)
    \/ GetGame
    \/ GameExists

SpecGame == Init /\ [][NextGame]_vars

---------------------------------------------------------------------------
\* Two tasks calling State::make_move on one game at the same time.

\* The games the two tasks play on: white 0 against black 1, and address 0
\* against itself.
ConcTransactions == {Transaction(CreateGame(0, b), 0) : b \in Addresses}

ConcGameIds == {calculate_game_id(0, b) : b \in Addresses}

\* A call of make_move that waits for the write lock of game_states.
Waiting(player, mv) == [player |-> player, mv |-> mv, pc |-> "lock", res |-> "none"]

\* Both tasks call make_move on game game_id.
MakeMoveBegin ==
    /\ call = Idle
    /\ \E game_id \in ConcGameIds, p1 \in Addresses, p2 \in Addresses,
          m1 \in Moves, m2 \in Moves :
          call' = [op |-> "make_move", game_id |-> game_id, gs0 |-> game_states,
                   tasks |-> <<Waiting(p1, m1), Waiting(p2, m2)>>]
    /\ ret' = NoReturn
    /\ UNCHANGED <<db, verified_blocks, game_states>>

\* MakeMoveRun checking on the table of the call's start and writing the
\* game back later, with no lock held in between.
MakeMoveRun_torn(t) ==
    /\ call.op = "make_move" /\ call.tasks[t].pc = "lock"
    /\ LET r == make_move(call.gs0, call.tasks[t].player, call.game_id, call.tasks[t].mv)
       IN  /\ game_states' =
                 IF r.games # call.gs0
                 THEN [game_states EXCEPT ![call.game_id] = r.games[call.game_id]]
                 ELSE game_states
           /\ call' = [call EXCEPT !.tasks[t].pc = "done", !.tasks[t].res = r.res]
    /\ UNCHANGED <<db, verified_blocks, ret>>

\* Task t gets the write lock, and runs make_move to its return with the
\* lock held: there is no await after game_states.write().
MakeMoveRun(t) ==
    /\ call.op = "make_move" /\ call.tasks[t].pc = "lock"
    /\ LET r == make_move(game_states, call.tasks[t].player, call.game_id, call.tasks[t].mv)
       IN  /\ game_states' = r.games
           /\ call' = [call EXCEPT !.tasks[t].pc = "done", !.tasks[t].res = r.res]
    /\ UNCHANGED <<db, verified_blocks, ret>>

\* Both calls have returned.
MakeMoveEnd ==
    /\ call.op = "make_move"
    /\ \A t \in 1..2 : call.tasks[t].pc = "done"
    /\ call' = Idle
    /\ UNCHANGED <<db, verified_blocks, game_states, ret>>

NextConc ==
    \/ Execute(ConcTransactions)
    \/ MakeMoveBegin
    \/ \E t \in 1..2 : MakeMoveRun(t)
    \/ MakeMoveEnd
    \/ GetGame
    \/ GameExists

SpecConc == Init /\ [][NextConc]_vars

---------------------------------------------------------------------------
\* Blocks that arrive as bytes.  The engine hands the VM the bytes of a block
\* built elsewhere; the VM parses them with Block::from_slice and the block
\* then goes through verify, accept or reject like any other.

\* The blocks a peer builds: any parent, height and timestamp, at most one
\* transaction, signed by any sender.
PeerBlocks ==
    {try_new(p, h, t, x, "Processing") :
        p \in {EmptyId, UnknownId}, h \in Heights, t \in Timestamps,
        x \in {<<>>} \cup {<<tx>> : tx \in Transactions}}

\* Build, serialize, parse: what test_block does with its genesis block.
RoundTrip ==
    /\ call = Idle
    /\ \E b \in PeerBlocks :
          ret' = [op |-> "round_trip", res |-> "ok", status |-> b.status,
                  id |-> b.id, pre |-> NoInput, at |-> 0,
                  built |-> b, parsed |-> from_slice(to_vec(b))]
    /\ UNCHANGED <<db, verified_blocks, game_states, call>>

\* The serialization on its own, on every block a peer can build.
SpecCodec == Init /\ [][RoundTrip]_vars

\* The bytes that reach the VM: to_vec of an empty block on a known parent (or
\* of a genesis block), as produced or preceded by one whitespace byte.
WireBytes ==
    {pad \o to_vec(try_new(p, h, 0, <<>>, "Processing")) :
        p \in {EmptyId} \cup KnownIds, h \in Heights,
        pad \in {<<>>, <<Whitespace>>}}

\* from_slice followed by Block::verify on the parsed block.
VerifyParsed ==
    /\ call = Idle
    /\ \E d \in WireBytes :
          LET self == from_slice(d)
          IN  /\ self.id \in KnownIds \/ Cardinality(KnownIds) < MaxBlocks
              /\ \E now \in Nows, checked \in Builds(self) :
                    LET r == verify(verified_blocks, db, self, now, checked)
                    IN  /\ verified_blocks' = r.vb
                        /\ ret' = [op |-> "verify", res |-> r.res,
                                   status |-> self.status,
                                   id |-> IF get_block(r.vb, db, self.id).ok
                                          THEN self.id ELSE EmptyId,
                                   pre |-> VerifyInput(verified_blocks, db, self, now),
                                   at |-> 0]
    /\ UNCHANGED <<db, game_states, call>>

NextParse ==
    \/ VerifyParsed
    \/ AcceptBegin
    \/ AcceptWrite
    \/ AcceptSetLast
    \/ AcceptRemove
    \/ RejectBegin
    \/ RejectWrite
    \/ RejectRemove
    \/ GetBlock
    \/ HasLastAccepted
    \/ GetLastAcceptedId

SpecParse == Init /\ [][NextParse]_vars

---------------------------------------------------------------------------
\* The locks.  State keeps db, verified_blocks and game_states each behind
\* its own tokio RwLock (fair: requests are served in the order they were
\* made, a reader behind a waiting writer waits).  Here the operations run as
\* concurrent tasks; a task runs from one lock().await to the next, and call
\* holds the tasks, the holders of each lock and its queue.

MaxTasks == 2

\* The number of operations started in one run.
MaxOps == 5

Tasks == 1..MaxTasks

Locks == {"db", "verified_blocks", "game_states"}

\* The game and the two blocks the tasks work on: a genesis block that creates
\* the game and its child that moves in it.
LockGame == calculate_game_id(0, 1)

LockGenesis ==
    try_new(EmptyId, 0, 0, <<Transaction(CreateGame(0, 1), 0)>>, "Processing")

LockChild ==
    try_new(LockGenesis.id, 1, 0,
            <<Transaction(MakeMove(0, LockGame, 1), 0)>>, "Processing")

LockBlocks == {LockGenesis, LockChild}

\* The lock each section of code takes, and how.
LockOf(sec) ==
    CASE sec \in {"add", "remove", "self_cache", "parent_cache", "cache"}
            -> "verified_blocks"
      [] sec \in {"write", "last", "self_store", "parent_store", "store",
                  "has_last", "get_last"}
            -> "db"
      [] sec \in {"tx", "get_game", "game_exists"}
            -> "game_states"

ModeOf(sec) ==
    IF sec \in {"add", "remove", "write", "last", "tx"} THEN "w" ELSE "r"

\* A lock that lets every request in.
Compatible_always(holders, mode) == TRUE

\* RwLock: a writer needs the lock free, a reader needs it free of writers.
Compatible(holders, mode) ==
    IF mode = "w" THEN holders = {} ELSE \A h \in holders : h[2] = "r"

NoValue == [kind |-> "none"]

IdleTask ==
    [op |-> "none", self |-> LockGenesis, pc |-> "idle", holding |-> FALSE,
     i |-> 0, res |-> "none", val |-> NoValue]

InitLock ==
    /\ db = <<>>
    /\ verified_blocks = <<>>
    /\ game_states = <<>>
    /\ ret = NoReturn
    /\ call = [op |-> "tasks",
               started |-> 0,
               tasks |-> [t \in Tasks |-> IdleTask],
               held  |-> [l \in Locks |-> {}],
               queue |-> [l \in Locks |-> <<>>]]

\* lock.read().await / lock.write().await of section sec, with what task t
\* holds kept: t has the lock at once when nobody waits for it and it admits
\* t, and joins the queue otherwise.
Request(c, t, sec) ==
    LET l == LockOf(sec)
        m == ModeOf(sec)
    IN  IF c.queue[l] = <<>> /\ Compatible(c.held[l], m)
        THEN [c EXCEPT !.tasks[t].pc = sec,
                       !.tasks[t].holding = TRUE,
                       !.held[l] = @ \cup {<<t, m>>}]
        ELSE [c EXCEPT !.tasks[t].pc = sec,
                       !.tasks[t].holding = FALSE,
                       !.queue[l] = Append(@, <<t, m>>)]

\* The guards of task t are dropped.
Release(c, t) ==
    [c EXCEPT !.held = [l \in Locks |-> {h \in c.held[l] : h[1] # t}]]

\* The operation of task t returns res and val.
Finish(c, t, res, val) ==
    [c EXCEPT !.tasks[t].pc = "done", !.tasks[t].holding = FALSE,
              !.tasks[t].res = res, !.tasks[t].val = val]

\* Task t starts operation op on block self; its first await is section sec.
Start(t, op, self, sec) ==
    /\ call.tasks[t].pc = "idle"
    /\ call.started < MaxOps
    /\ call' = Request([call EXCEPT !.started = @ + 1,
                                    !.tasks[t] =
                           [IdleTask EXCEPT !.op = op, !.self = self, !.i = 1]],
                       t, sec)
    /\ UNCHANGED <<db, verified_blocks, game_states, ret>>

VerifyStart(t) ==
    \E self \in LockBlocks :
        Start(t, "verify", self,
              IF self.height = 0 /\ self.parent_id = EmptyId
              THEN "add" ELSE "self_cache")

AcceptStart(t) ==
    \E self \in LockBlocks :
        /\ self.id \in KnownIds
        /\ Start(t, "accept", set_status(self, "Accepted"),
                 IF Len(self.txs) > 0 THEN "tx" ELSE "write")

RejectStart(t) ==
    \E self \in LockBlocks :
        /\ self.id \in KnownIds
        /\ Start(t, "reject", set_status(self, "Rejected"), "write")

GetBlockStart(t) ==
    \E self \in LockBlocks : Start(t, "get_block", self, "cache")

QueryStart(t) ==
    \E sec \in {"has_last", "get_last", "get_game", "game_exists"} :
        Start(t, sec, LockGenesis, sec)

\* The lock of the section task t waits for is handed to it: t is first in the
\* queue and the lock admits it.
Grant(t) ==
    /\ call.tasks[t].pc \notin {"idle", "done"}
    /\ ~call.tasks[t].holding
    /\ LET sec == call.tasks[t].pc
           l == LockOf(sec)
       IN  /\ call.queue[l] # <<>>
           /\ Head(call.queue[l]) = <<t, ModeOf(sec)>>
           /\ Compatible(call.held[l], ModeOf(sec))
           /\ call' = [call EXCEPT !.tasks[t].holding = TRUE,
                                   !.held[l] = @ \cup {<<t, ModeOf(sec)>>},
                                   !.queue[l] = Tail(@)]
    /\ UNCHANGED <<db, verified_blocks, game_states, ret>>

InSection(t, secs) == call.tasks[t].pc \in secs /\ call.tasks[t].holding

\* Block::verify after the parent was found: height, timestamps, clock.
check_parent(prnt, self, now) ==
    IF prnt.height # wrapping_sub1(self.height) THEN "HeightMismatch"
    ELSE IF prnt.timestamp > self.timestamp THEN "ParentTimestamp"
    ELSE IF self.timestamp >= now + OneHour THEN "FutureTimestamp"
    ELSE "ok"

\* The call record after verify found its parent prnt.
AfterParent(c, t, prnt, now) ==
    LET res == check_parent(prnt, c.tasks[t].self, now)
    IN  IF res = "ok" THEN Request(c, t, "add") ELSE Finish(c, t, res, NoValue)

\* State::add_verified under the write lock; verify returns Ok.
RunAdd(t) ==
    /\ InSection(t, {"add"})
    /\ verified_blocks' = add_verified(verified_blocks, call.tasks[t].self)
    /\ call' = Finish(Release(call, t), t, "ok", NoValue)
    /\ UNCHANGED <<db, game_states, ret>>

\* RunCache dropping the guard of the verified map before it waits for the
\* database.
RunCache_releases(t) ==
    /\ InSection(t, {"self_cache", "parent_cache", "cache"})
    /\ LET task == call.tasks[t]
           blk_id == IF task.pc = "parent_cache"
                     THEN task.self.parent_id ELSE task.self.id
       IN  IF blk_id \in DOMAIN verified_blocks
           THEN CASE task.pc = "self_cache" ->
                        call' = Finish(Release(call, t), t, "ok", NoValue)
                  [] task.pc = "cache" ->
                        call' = Finish(Release(call, t), t, "ok",
                                       [ok |-> TRUE, blk |-> verified_blocks[blk_id]])
                  [] task.pc = "parent_cache" ->
                        \E now \in Nows :
                            call' = AfterParent(Release(call, t), t,
                                                verified_blocks[blk_id], now)
           ELSE call' = Request(Release(call, t), t,
                                CASE task.pc = "self_cache" -> "self_store"
                                  [] task.pc = "parent_cache" -> "parent_store"
                                  [] task.pc = "cache" -> "store")
    /\ UNCHANGED <<db, verified_blocks, game_states, ret>>

\* State::get_block, first half: under the read lock of the verified map, the
\* entry is returned if there is one; otherwise the task goes on to
\* self.db.read().await with the guard of the map still alive.
RunCache(t) ==
    /\ InSection(t, {"self_cache", "parent_cache", "cache"})
    /\ LET task == call.tasks[t]
           blk_id == IF task.pc = "parent_cache"
                     THEN task.self.parent_id ELSE task.self.id
       IN  IF blk_id \in DOMAIN verified_blocks
           THEN CASE task.pc = "self_cache" ->
                        call' = Finish(Release(call, t), t, "ok", NoValue)
                  [] task.pc = "cache" ->
                        call' = Finish(Release(call, t), t, "ok",
                                       [ok |-> TRUE, blk |-> verified_blocks[blk_id]])
                  [] task.pc = "parent_cache" ->
                        \E now \in Nows :
                            call' = AfterParent(Release(call, t), t,
                                                verified_blocks[blk_id], now)
           ELSE call' = Request(call, t,
                                CASE task.pc = "self_cache" -> "self_store"
                                  [] task.pc = "parent_cache" -> "parent_store"
                                  [] task.pc = "cache" -> "store")
    /\ UNCHANGED <<db, verified_blocks, game_states, ret>>

\* State::get_block, second half: the record is read and decoded under the
\* read lock of the database; both guards are dropped at the return.
RunStore(t) ==
    /\ InSection(t, {"self_store", "parent_store", "store"})
    /\ LET task == call.tasks[t]
           blk_id == IF task.pc = "parent_store"
                     THEN task.self.parent_id ELSE task.self.id
           r == get_block(<<>>, db, blk_id)
       IN  CASE task.pc = "self_store" ->
                   call' = IF r.ok THEN Finish(Release(call, t), t, "ok", NoValue)
                           ELSE Request(Release(call, t), t, "parent_cache")
             [] task.pc = "store" ->
                   call' = Finish(Release(call, t), t,
                                  IF r.ok THEN "ok" ELSE "NotFound", r)
             [] task.pc = "parent_store" ->
                   IF r.ok
                   THEN \E now \in Nows :
                            call' = AfterParent(Release(call, t), t, r.blk, now)
                   ELSE call' = Finish(Release(call, t), t, "NotFound", NoValue)
    /\ UNCHANGED <<db, verified_blocks, game_states, ret>>

\* One transaction of accept(): create_new_game / make_move / end_game take the
\* write lock of the game table for the whole call.
RunTx(t) ==
    /\ InSection(t, {"tx"})
    /\ LET task == call.tasks[t]
           r == execute(game_states, task.self.txs[task.i])
       IN  /\ game_states' = r.games
           /\ call' = IF r.res # "ok"
                      THEN Finish(Release(call, t), t, r.res, NoValue)
                      ELSE IF task.i < Len(task.self.txs)
                      THEN Request([Release(call, t) EXCEPT !.tasks[t].i = task.i + 1],
                                   t, "tx")
                      ELSE Request(Release(call, t), t, "write")
    /\ UNCHANGED <<db, verified_blocks, ret>>

\* RunWrite evicting the block from the verified map when the put fails.
RunWrite_evicts(t) ==
    /\ InSection(t, {"write"})
    /\ \E put_fails \in BOOLEAN :
          IF put_fails
          THEN /\ db' = db
               /\ verified_blocks' =
                      remove_verified(verified_blocks, call.tasks[t].self.id)
               /\ call' = Finish(Release(call, t), t, "PutFailed", NoValue)
          ELSE /\ db' = write_block(db, call.tasks[t].self)
               /\ verified_blocks' = verified_blocks
               /\ call' = Request(Release(call, t), t,
                                  IF call.tasks[t].op = "accept"
                                  THEN "last" ELSE "remove")
    /\ UNCHANGED <<game_states, ret>>

\* RunWrite keeping the guard of the database while it goes on.
RunWrite_holding(t) ==
    /\ InSection(t, {"write"})
    /\ \E put_fails \in BOOLEAN :
          IF put_fails
          THEN /\ db' = db
               /\ call' = Finish(Release(call, t), t, "PutFailed", NoValue)
          ELSE /\ db' = write_block(db, call.tasks[t].self)
               /\ call' = Request(call, t,
                                  IF call.tasks[t].op = "accept"
                                  THEN "last" ELSE "remove")
    /\ UNCHANGED <<verified_blocks, game_states, ret>>

\* State::write_block under the write lock of the database.
RunWrite(t) ==
    /\ InSection(t, {"write"})
    /\ \E put_fails \in BOOLEAN :
          IF put_fails
          THEN /\ db' = db
               /\ call' = Finish(Release(call, t), t, "PutFailed", NoValue)
          ELSE /\ db' = write_block(db, call.tasks[t].self)
               /\ call' = Request(Release(call, t), t,
                                  IF call.tasks[t].op = "accept"
                                  THEN "last" ELSE "remove")
    /\ UNCHANGED <<verified_blocks, game_states, ret>>

\* State::set_last_accepted_block under the write lock of the database.
RunLast(t) ==
    /\ InSection(t, {"last"})
    /\ \E put_fails \in BOOLEAN :
          IF put_fails
          THEN /\ db' = db
               /\ call' = Finish(Release(call, t), t, "PutFailed", NoValue)
          ELSE /\ db' = set_last_accepted_block(db, call.tasks[t].self.id)
               /\ call' = Request(Release(call, t), t, "remove")
    /\ UNCHANGED <<verified_blocks, game_states, ret>>

\* State::remove_verified under the write lock; accept / reject return Ok.
RunRemove(t) ==
    /\ InSection(t, {"remove"})
    /\ verified_blocks' = remove_verified(verified_blocks, call.tasks[t].self.id)
    /\ call' = Finish(Release(call, t), t, "ok", NoValue)
    /\ UNCHANGED <<db, game_states, ret>>

\* has_last_accepted_block, get_last_accepted_block_id, get_game and
\* game_exists: one read lock each.
RunQuery(t) ==
    /\ InSection(t, {"has_last", "get_last", "get_game", "game_exists"})
    /\ LET sec == call.tasks[t].pc
           val == CASE sec = "has_last" ->
                          [kind |-> sec, has |-> has_last_accepted_block(db)]
                    [] sec = "get_last" ->
                          [kind |-> sec, id |-> get_last_accepted_block_id(db)]
                    [] sec = "get_game" ->
                          [kind |-> sec, game |-> get_game(game_states, LockGame)]
                    [] sec = "game_exists" ->
                          [kind |-> sec, has |-> game_exists(game_states, LockGame)]
       IN  call' = Finish(Release(call, t), t, "ok", val)
    /\ UNCHANGED <<db, verified_blocks, game_states, ret>>

\* The caller has its result; the task is free for the next operation.
TaskReturn(t) ==
    /\ call.tasks[t].pc = "done"
    /\ call' = [call EXCEPT !.tasks[t] = IdleTask]
    /\ UNCHANGED <<db, verified_blocks, game_states, ret>>

\* What a started operation does next.
TaskStep(t) ==
    \/ Grant(t)
    \/ RunAdd(t)
    \/ RunCache(t)
    \/ RunStore(t)
    \/ RunTx(t)
    \/ RunWrite(t)
    \/ RunLast(t)
    \/ RunRemove(t)
    \/ RunQuery(t)
    \/ TaskReturn(t)

NextLock ==
    \/ \E t \in Tasks : VerifyStart(t)
    \/ \E t \in Tasks : AcceptStart(t)
    \/ \E t \in Tasks : RejectStart(t)
    \/ \E t \in Tasks : GetBlockStart(t)
    \/ \E t \in Tasks : QueryStart(t)
    \/ \E t \in Tasks : TaskStep(t)

SpecLock == InitLock /\ [][NextLock]_vars

\* The runtime polls every task that can go on, and a fair lock hands itself
\* to the first of its queue: a step of a task that stays possible is taken.
SpecLockFair == SpecLock /\ \A t \in Tasks : WF_vars(TaskStep(t))

---------------------------------------------------------------------------
\* Properties.

\* The status of the record stored for block id blk_id in database d.
StoredStatus(d, blk_id) == bws_from_slice(d[block_with_status_key(blk_id)]).status

\* The game of white 0 against black 1.
Game01 == calculate_game_id(0, 1)

\* The steps of an accept() call that execute a transaction.
InTxLoop == call.op = "accept" /\ call.pc = "tx" /\ call.i <= Len(call.self.txs)

VerifyErrors == {"NotFound", "HeightMismatch", "ParentTimestamp", "FutureTimestamp"}

\* C2: a verify() that returns an error leaves the verified map, the database
\* (the block records and the last-accepted pointer) and the game table as
\* they were; the block is not in the verified map.
C2_VerifyErrorChangesNothing ==
    [][(call = Idle /\ call' = Idle /\ ret'.op = "verify" /\ ret'.res \in VerifyErrors)
          => /\ UNCHANGED <<db, verified_blocks, game_states>>
             /\ ret'.id = EmptyId]_vars

\* C2 witness: a verify() has failed on the parent's timestamp while State
\* holds a block in the verified map and one in the database.
C2_Witness ==
    /\ ret.op = "verify" /\ ret.res = "ParentTimestamp"
    /\ DOMAIN verified_blocks # {}
    /\ StoredIds(db) # {}

\* C3: after accept() has returned success the block object is Accepted,
\* get_block gives the block with status Accepted, there is a last accepted
\* block, its id is the block's, and the block is not in the verified map.
C3_AcceptPostcondition ==
    (ret.op = "accept" /\ ret.res = "ok") =>
        /\ ret.status = "Accepted"
        /\ get_block(verified_blocks, db, ret.id).ok
        /\ get_block(verified_blocks, db, ret.id).blk.id = ret.id
        /\ get_block(verified_blocks, db, ret.id).blk.status = "Accepted"
        /\ has_last_accepted_block(db)
        /\ get_last_accepted_block_id(db) = ret.id
        /\ ~has_verified(verified_blocks, ret.id)

\* C3 witness: accept() has returned success on a block at height 1.
C3_Witness ==
    /\ ret.op = "accept" /\ ret.res = "ok"
    /\ get_block(verified_blocks, db, ret.id).ok
    /\ get_block(verified_blocks, db, ret.id).blk.height = 1

\* The block of the call in progress is accepted already: stored as Accepted,
\* evicted from the verified map, and the last accepted block.
AlreadyAccepted ==
    /\ call.self.id \in StoredIds(db)
    /\ StoredStatus(db, call.self.id) = "Accepted"
    /\ ~has_verified(verified_blocks, call.self.id)
    /\ get_last_accepted_block_id(db) = call.self.id

\* C4: an accept() of a block that is accepted already executes none of its
\* transactions: no step of its transaction loop changes the game table.
C4_NoReexecution ==
    [][(InTxLoop /\ AlreadyAccepted) => game_states' = game_states]_vars

\* C5: accept() executes the transactions in list order, each on the game
\* table the one before it left, and writes the block only after the last.
C5_ListOrder ==
    call.op = "accept" =>
        /\ ExecPrefix(call.gs0, call.self.txs, call.i - 1).res = "ok"
        /\ game_states = ExecPrefix(call.gs0, call.self.txs, call.i - 1).games
        /\ call.pc \in {"last", "remove"} => call.i = Len(call.self.txs) + 1

\* C5 witness: accept() has written a block after executing its two different
\* transactions, which changed the game table.
C5_Witness ==
    /\ call.op = "accept" /\ call.pc = "last"
    /\ Len(call.self.txs) = 2 /\ call.i = 3
    /\ call.self.txs[1] # call.self.txs[2]
    /\ game_states # call.gs0

\* C6: when a transaction fails in accept(), accept() returns its error, and
\* from the call's start to that return the database (block records and
\* last-accepted pointer) and the verified map are not changed.
C6_TxErrorStore ==
    [][/\ (call = Idle /\ call'.op = "accept") => UNCHANGED <<db, verified_blocks>>
       /\ InTxLoop => UNCHANGED <<db, verified_blocks>>
       /\ (InTxLoop /\ execute(game_states, call.self.txs[call.i]).res # "ok")
             => /\ call' = Idle
                /\ ret'.op = "accept"
                /\ ret'.res = execute(game_states, call.self.txs[call.i]).res]_vars

\* C6 witness: accept() has returned game-not-found for a block that is still
\* in the verified map and not in the database, which has no last accepted
\* block.
C6_Witness ==
    /\ ret.op = "accept" /\ ret.res = "GameNotFound"
    /\ has_verified(verified_blocks, ret.id)
    /\ ret.id \notin StoredIds(db)
    /\ ~has_last_accepted_block(db)

\* C7: when the k-th transaction fails, accept() ends there: no later
\* transaction is executed and the game table is the one the transactions
\* 1..k-1 left, executed in order from the table of the call's start.
C7_ShortCircuitNoRollback ==
    [][(InTxLoop /\ execute(game_states, call.self.txs[call.i]).res # "ok")
          => /\ call' = Idle
             /\ ret'.at = call.i
             /\ game_states' = ExecPrefix(call.gs0, call.self.txs, call.i - 1).games]_vars

\* C7 witness: accept() has failed on the second transaction of a block, and
\* the move of the first is on the board.
C7_Witness ==
    /\ ret.op = "accept" /\ ret.at = 2 /\ ret.res = "NotPlayersTurn"
    /\ game_exists(game_states, Game01)
    /\ game_states[Game01].game.ply = 1

\* C8: after reject() has returned success the block object is Rejected, the
\* block is stored so that get_block gives it with status Rejected, and it is
\* not in the verified map.
C8_RejectPostcondition ==
    (ret.op = "reject" /\ ret.res = "ok") =>
        /\ ret.status = "Rejected"
        /\ ret.id \in StoredIds(db)
        /\ StoredStatus(db, ret.id) = "Rejected"
        /\ get_block(verified_blocks, db, ret.id).ok
        /\ get_block(verified_blocks, db, ret.id).blk.id = ret.id
        /\ get_block(verified_blocks, db, ret.id).blk.status = "Rejected"
        /\ ~has_verified(verified_blocks, ret.id)

\* C8 witness: reject() has returned success.
C8_Witness ==
    /\ ret.op = "reject" /\ ret.res = "ok"
    /\ ret.id \in StoredIds(db)

\* C9: the status stored for a decided block (stored, and evicted from the
\* verified map) is never changed by a later step.
C9_DecisionTerminal ==
    [][\A blk_id \in StoredIds(db) \ DOMAIN verified_blocks :
          /\ blk_id \in StoredIds(db')
          /\ StoredStatus(db', blk_id) = StoredStatus(db, blk_id)]_vars

\* C10: the game table changes only in a step of accept()'s transaction loop,
\* and then to what the transaction makes of it; verify(), reject() and the
\* queries leave it as it is.
C10_GameTableFrame ==
    [][game_states' # game_states
          => /\ InTxLoop
             /\ game_states' = execute(game_states, call.self.txs[call.i]).games]_vars

\* C10 witness: reject() has returned success on a block that holds a
\* CreateGame, and the game table is empty.
C10_Witness ==
    /\ ret.op = "reject" /\ ret.res = "ok"
    /\ get_block(verified_blocks, db, ret.id).ok
    /\ Len(get_block(verified_blocks, db, ret.id).blk.txs) > 0
    /\ get_block(verified_blocks, db, ret.id).blk.txs[1].action.type = "CreateGame"
    /\ DOMAIN game_states = {}

\* C11: a verify() of a genesis-shaped block (height 0, empty parent id)
\* succeeds whatever its timestamp and with no parent retrievable, and the
\* block is then in the verified map, as built.
C11_GenesisRule ==
    (ret.op = "verify" /\ ret.pre.genesis) =>
        /\ ret.res = "ok"
        /\ has_verified(verified_blocks, ret.id)
        /\ verified_blocks[ret.id].id = ret.id
        /\ verified_blocks[ret.id].height = 0
        /\ verified_blocks[ret.id].parent_id = EmptyId
        /\ verified_blocks[ret.id].status = ret.status

\* C11 witness: a genesis-shaped block whose timestamp is more than one hour
\* after the clock, with no parent retrievable, has passed verify() and is in
\* the verified map.
C11_Witness ==
    /\ ret.op = "verify" /\ ret.res = "ok"
    /\ ret.pre.genesis /\ ret.pre.future /\ ~ret.pre.parent /\ ~ret.pre.known
    /\ has_verified(verified_blocks, ret.id)
    /\ verified_blocks[ret.id].timestamp = OneHour + 1

\* C12: a verify() of a block whose id is retrievable (in the verified map
\* or stored in the database) succeeds and leaves the verified map, the
\* database (block records and last-accepted pointer) and the game table as
\* they were.
C12_VerifyKnownNoOp ==
    [][(call = Idle /\ call' = Idle /\ ret'.op = "verify" /\ ret'.pre.known)
          => /\ ret'.res = "ok"
             /\ UNCHANGED <<db, verified_blocks, game_states>>]_vars

\* C13: when no accept() or reject() is in progress, no block of the verified
\* map has a record in the database.
C13_CacheHoldsUndecided ==
    call = Idle => \A blk_id \in DOMAIN verified_blocks : blk_id \notin StoredIds(db)

\* The address that has the move in game table entry e.
SideToMove(e) == IF turn(e.game) = "White" THEN e.white ELSE e.black

\* State::make_move has just been called by a MakeMove transaction: its move
\* converted.
MakeMoveCalled ==
    /\ ret.op = "execute"
    /\ ret.tx.action.type = "MakeMove"
    /\ convert_move(ret.tx.action.mv).ok

\* State::make_move has just been called on a game of the table.
MakeMoveOnGame == MakeMoveCalled /\ ret.tx.action.game_id \in DOMAIN ret.gs0

C15_IllegalMoveNoOp ==
    (MakeMoveOnGame
       /\ ret.tx.action.player = SideToMove(ret.gs0[ret.tx.action.game_id])
       /\ ~is_legal(ret.gs0[ret.tx.action.game_id].game, ret.tx.action.mv))
       => /\ ret.res = "ok"
          /\ game_states = ret.gs0

\* C15 witness: white has sent a move of a black piece in a game in which
\* another game exists too, and got success.
C15_Witness ==
    /\ MakeMoveOnGame
    /\ ret.tx.action.game_id = Game01
    /\ ret.tx.action.player = 0
    /\ turn(ret.gs0[Game01].game) = "White"
    /\ ret.gs0[Game01].game.ply < MaxPly
    /\ ret.tx.action.mv = 3
    /\ ret.res = "ok"
    /\ DOMAIN ret.gs0 # {Game01}

\* C16: make_move by the player to move with a legal move puts the position
\* the rules engine gives in the place of the game's, keeps white and black
\* and every other entry, and the other side is to move; an EndGame on the
\* game then succeeds and get_game finds no game.
C16_LegalMoveApplied ==
    (MakeMoveOnGame
       /\ ret.tx.action.player = SideToMove(ret.gs0[ret.tx.action.game_id])
       /\ is_legal(ret.gs0[ret.tx.action.game_id].game, ret.tx.action.mv))
       => LET game_id == ret.tx.action.game_id
              ended == execute(game_states, Transaction(EndGame(game_id), AddressDefault))
          IN  /\ ret.res = "ok"
              /\ DOMAIN game_states = DOMAIN ret.gs0
              /\ game_states[game_id].game = play(ret.gs0[game_id].game, ret.tx.action.mv)
              /\ game_states[game_id].white = ret.gs0[game_id].white
              /\ game_states[game_id].black = ret.gs0[game_id].black
              /\ turn(game_states[game_id].game) # turn(ret.gs0[game_id].game)
              /\ get_game(game_states, game_id).some
              /\ get_game(game_states, game_id).game = game_states[game_id].game
              /\ \A g \in (DOMAIN ret.gs0) \ {game_id} : game_states[g] = ret.gs0[g]
              /\ ended.res = "ok"
              /\ ~get_game(ended.games, game_id).some

\* C16 witness: white has played the first move of the game of white 0
\* against black 1, and Black is to move.
C16_Witness ==
    /\ MakeMoveOnGame
    /\ ret.tx.action.game_id = Game01
    /\ ret.tx.action.player = 0
    /\ ret.gs0[Game01].game = ChessDefault
    /\ ret.res = "ok"
    /\ game_exists(game_states, Game01)
    /\ game_states[Game01].game.ply = 1
    /\ turn(game_states[Game01].game) = "Black"

C18_CreateGameOverwrites ==
    (ret.op = "execute" /\ ret.tx.action.type = "CreateGame")
       => LET game_id == calculate_game_id(ret.tx.action.white, ret.tx.action.black)
          IN  /\ ret.res = "ok"
              /\ DOMAIN game_states = (DOMAIN ret.gs0) \cup {game_id}
              /\ game_states[game_id] =
                    [game |-> ChessDefault, white |-> ret.tx.action.white,
                     black |-> ret.tx.action.black]
              /\ turn(game_states[game_id].game) = "White"
              /\ \A g \in (DOMAIN ret.gs0) \ {game_id} : game_states[g] = ret.gs0[g]

\* C18 witness: a CreateGame has reset a game that was one move in, next to
\* another game.
C18_Witness ==
    /\ ret.op = "execute" /\ ret.tx.action.type = "CreateGame"
    /\ ret.tx.action.white = 0 /\ ret.tx.action.black = 1
    /\ Game01 \in DOMAIN ret.gs0
    /\ ret.gs0[Game01].game.ply = 1
    /\ DOMAIN ret.gs0 # {Game01}
    /\ game_states[Game01].game = ChessDefault

\* C19: EndGame on a game of the table succeeds whatever the position and the
\* sender, removes the entry and no other, and get_game and game_exists find
\* no game, and one more EndGame on the id fails; EndGame on an id with no
\* entry fails with game-not-found and leaves the game table as it was.
C19_EndGame ==
    (ret.op = "execute" /\ ret.tx.action.type = "EndGame")
       => LET game_id == ret.tx.action.game_id
          IN  IF game_id \in DOMAIN ret.gs0
              THEN /\ ret.res = "ok"
                   /\ DOMAIN game_states = (DOMAIN ret.gs0) \ {game_id}
                   /\ \A g \in DOMAIN game_states : game_states[g] = ret.gs0[g]
                   /\ ~get_game(game_states, game_id).some
                   /\ ~game_exists(game_states, game_id)
                   /\ execute(game_states, ret.tx) =
                         [games |-> game_states, res |-> "GameNotFound"]
              ELSE /\ ret.res = "GameNotFound"
                   /\ game_states = ret.gs0

\* C19 witness: address 1 has ended the game of address 0 against itself
\* after its first move, and another game is still there.
C19_Witness ==
    /\ ret.op = "execute" /\ ret.tx.action.type = "EndGame"
    /\ ret.tx.sender = 1
    /\ ret.tx.action.game_id = calculate_game_id(0, 0)
    /\ calculate_game_id(0, 0) \in DOMAIN ret.gs0
    /\ ret.gs0[calculate_game_id(0, 0)].game.ply = 1
    /\ ret.res = "ok"
    /\ DOMAIN game_states # {}

\* The two concurrent make_move calls have both returned.
BothDone == call.op = "make_move" /\ \A t \in 1..2 : call.tasks[t].pc = "done"

\* make_move of task t of the call in progress, on game table gs.
TaskMove(gs, t) ==
    make_move(gs, call.tasks[t].player, call.game_id, call.tasks[t].mv)

\* The results and the game table are those of task a's call run to its end
\* before task b's.
Serial(a, b) ==
    LET first == TaskMove(call.gs0, a)
        second == TaskMove(first.games, b)
    IN  /\ call.tasks[a].res = first.res
        /\ call.tasks[b].res = second.res
        /\ game_states = second.games

\* In the position the two calls start in, task t's call is one that is
\* played: by the player to move, with a legal move.
LegalCall(t) ==
    /\ call.game_id \in DOMAIN call.gs0
    /\ call.tasks[t].player = SideToMove(call.gs0[call.game_id])
    /\ is_legal(call.gs0[call.game_id].game, call.tasks[t].mv)

\* In the position the two calls start in, the move of task t is illegal.
IllegalMove(t) ==
    /\ call.game_id \in DOMAIN call.gs0
    /\ ~is_legal(call.gs0[call.game_id].game, call.tasks[t].mv)

\* The move of task t is illegal also in the position the move of task a
\* leads to.
IllegalAfter(t, a) ==
    ~is_legal(play(call.gs0[call.game_id].game, call.tasks[a].mv), call.tasks[t].mv)

\* C20 as stated: of two concurrent calls on one game, one legal and one
\* illegal in the position they start in, exactly one is played, and the game
\* table at the end is the one the legal call alone gives.
C20_OneMutationAsStated ==
    BothDone =>
        \A a \in 1..2, b \in 1..2 :
            (a # b /\ LegalCall(a) /\ IllegalMove(b))
               => /\ game_states = TaskMove(call.gs0, a).games
                  /\ game_states[call.game_id].game.ply
                        = call.gs0[call.game_id].game.ply + 1

\* C20: the results of two concurrent make_move calls on one game and the
\* game table they leave are those of the two calls run one after the other
\* in some order; and when one is legal and the move of the other is illegal
\* both in the position they start in and in the one the legal move leads to,
\* exactly one move is played and the game table at the end is the one the
\* legal call alone gives.
C20_Serialised ==
    BothDone =>
        /\ Serial(1, 2) \/ Serial(2, 1)
        /\ \A a \in 1..2, b \in 1..2 :
              (a # b /\ LegalCall(a) /\ IllegalMove(b) /\ IllegalAfter(b, a))
                 => /\ game_states = TaskMove(call.gs0, a).games
                    /\ game_states[call.game_id].game.ply
                          = call.gs0[call.game_id].game.ply + 1

\* C20 witness: on the fresh game of white 0 against black 1, the legal move
\* of white was played first, and the call of white with the move no position
\* allows came second and was refused.
C20_Witness ==
    /\ BothDone
    /\ call.game_id = Game01
    /\ Game01 \in DOMAIN call.gs0
    /\ call.gs0[Game01].game = ChessDefault
    /\ call.tasks[1] = [player |-> 0, mv |-> 1, pc |-> "done", res |-> "ok"]
    /\ call.tasks[2] = [player |-> 0, mv |-> 2, pc |-> "done", res |-> "NotPlayersTurn"]
    /\ game_states[Game01].game.ply = 1

\* The transaction a replica executes that got transaction tx in a block with
\* the given parent id, height and timestamp, as bytes.
Replicated(tx, parent_id, height, timestamp) ==
    from_slice(to_vec(try_new(parent_id, height, timestamp, <<tx>>, "Processing"))).txs[1]

\* C23: the game table and the result an execute leaves are a function of the
\* game table before and the action: an execute of the same action from the
\* same table gives the same, whatever the sender, and whatever the parent,
\* height and timestamp of the block a replica reads the transaction from.
C23_Deterministic ==
    ret.op = "execute" =>
        /\ \A sender \in Addresses :
              execute(ret.gs0, Transaction(ret.tx.action, sender))
                 = [games |-> game_states, res |-> ret.res]
        /\ \A parent_id \in {EmptyId, UnknownId}, height \in Heights,
              timestamp \in Timestamps :
              execute(ret.gs0, Replicated(ret.tx, parent_id, height, timestamp))
                 = [games |-> game_states, res |-> ret.res]

\* C23 witness: the reply of black, sent by address 1, was played in the game
\* of white 0 against black 1.
C23_Witness ==
    /\ MakeMoveOnGame
    /\ ret.tx.action.game_id = Game01
    /\ ret.tx.action.player = 1
    /\ ret.tx.sender = 1
    /\ ret.res = "ok"
    /\ game_states[Game01].game.ply = ret.gs0[Game01].game.ply + 1

\* C24: to_vec followed by from_slice gives back the block that was built: the
\* same parent_id, height, timestamp and id, and the same transactions, each
\* with its action and its sender.
C24_RoundTrip ==
    ret.op = "round_trip" =>
        /\ ret.parsed.parent_id = ret.built.parent_id
        /\ ret.parsed.height = ret.built.height
        /\ ret.parsed.timestamp = ret.built.timestamp
        /\ ret.parsed.id = ret.built.id
        /\ Len(ret.parsed.txs) = Len(ret.built.txs)
        /\ \A i \in 1..Len(ret.built.txs) :
              /\ ret.parsed.txs[i].action = ret.built.txs[i].action
              /\ ret.parsed.txs[i].sender = ret.built.txs[i].sender

\* C25: the id of a block is the hash of its canonical serialization: this
\* holds of every block in the verified map and of every block get_block
\* returns, and the block get_block returns for a key of the store has that
\* key as the hash of the stored bytes.
C25_ContentAddressed ==
    /\ \A k \in DOMAIN verified_blocks :
          verified_blocks[k].id = Sha256(to_vec(verified_blocks[k]))
    /\ \A k \in KnownIds :
          LET blk == get_block(verified_blocks, db, k).blk
          IN  blk.id = Sha256(to_vec(blk))
    /\ \A k \in StoredIds(db) :
          /\ get_block(<<>>, db, k).blk.id = k
          /\ Sha256(bws_from_slice(db[block_with_status_key(k)]).block_bytes) = k

\* C26: calculate_game_id depends on the ordered pair (white, black) only: a
\* game of the table is filed under the id of its own white and black, a
\* CreateGame files the game under the id of its pair whatever the table held,
\* and swapping two different addresses gives a different id.
C26_GameIdOrderedPair ==
    /\ \A white \in Addresses, black \in Addresses :
          white # black =>
              calculate_game_id(white, black) # calculate_game_id(black, white)
    /\ \A g \in DOMAIN game_states :
          g = calculate_game_id(game_states[g].white, game_states[g].black)
    /\ (ret.op = "execute" /\ ret.tx.action.type = "CreateGame") =>
          calculate_game_id(ret.tx.action.white, ret.tx.action.black)
              \in DOMAIN game_states

\* Both games of two different addresses are in the table, under two ids.
C26_Witness ==
    /\ ret.op = "execute" /\ ret.tx.action.type = "CreateGame"
    /\ ret.tx.action.white = 1 /\ ret.tx.action.black = 0
    /\ calculate_game_id(0, 1) \in DOMAIN ret.gs0
    /\ {calculate_game_id(0, 1), calculate_game_id(1, 0)} \subseteq DOMAIN game_states
    /\ game_states[calculate_game_id(1, 0)].white = 1
    /\ game_states[calculate_game_id(0, 1)].white = 0

\* C27: as long as no accept() has set the last accepted block,
\* has_last_accepted_block is false and get_last_accepted_block_id returns the
\* empty id as its value; this is so on the new State, and only the
\* set_last_accepted_block step of an accept() ends it.
C27_NoneAccepted ==
    /\ ~has_last_accepted_block(db)
    /\ get_last_accepted_block_id(db) = EmptyId
    /\ [][~has_last_accepted_block(db) =>
              /\ get_last_accepted_block_id(db) = EmptyId
              /\ has_last_accepted_block(db') =>
                    (call.op = "accept" /\ call.pc = "last")]_vars

\* Blocks were verified and one was rejected, one accept() failed before its
\* set_last_accepted_block, and no block has been accepted.
C27_Witness ==
    /\ call = Idle /\ ret.op = "accept" /\ ret.res = "PutFailed"
    /\ \E k \in StoredIds(db) : StoredStatus(db, k) = "Rejected"
    /\ ~has_last_accepted_block(db)
    /\ get_last_accepted_block_id(db) = EmptyId

\* C28: get_block returns the entry of the verified map when the id is in the
\* map; otherwise the block of the stored record, with the record's status and
\* the record's bytes as its serialization; and it fails exactly when the id is
\* in neither.
C28_GetBlock ==
    \A blk_id \in KnownIds \cup {UnknownId} :
        LET r == get_block(verified_blocks, db, blk_id)
        IN  /\ has_verified(verified_blocks, blk_id) =>
                  (r.ok /\ r.blk = verified_blocks[blk_id])
            /\ (~has_verified(verified_blocks, blk_id) /\ blk_id \in StoredIds(db)) =>
                  /\ r.ok
                  /\ r.blk.id = blk_id
                  /\ r.blk.status = StoredStatus(db, blk_id)
                  /\ to_vec(r.blk)
                        = bws_from_slice(db[block_with_status_key(blk_id)]).block_bytes
            /\ ~r.ok <=> (~has_verified(verified_blocks, blk_id)
                             /\ blk_id \notin StoredIds(db))

\* One id is in the verified map as Processing and in the store as Accepted,
\* another is in the store only, a third in neither.
C28_Witness ==
    /\ \E blk_id \in DOMAIN verified_blocks :
          /\ blk_id \in StoredIds(db)
          /\ StoredStatus(db, blk_id) = "Accepted"
          /\ get_block(verified_blocks, db, blk_id).blk.status = "Processing"
    /\ \E blk_id \in StoredIds(db) \ DOMAIN verified_blocks :
          get_block(verified_blocks, db, blk_id).blk.status = "Rejected"
    /\ ~get_block(verified_blocks, db, UnknownId).ok

\* C29: executing a transaction whose action is Unknown returns success and
\* leaves the game table, the database and the verified map as they were.
C29_UnknownNoOp ==
    [][(ret' # ret /\ ret'.op = "execute" /\ ret'.tx.action.type = "Unknown") =>
          /\ ret'.res = "ok"
          /\ ret'.gs0 = game_states
          /\ UNCHANGED <<game_states, db, verified_blocks>>]_vars

\* An Unknown transaction was executed on a table holding a game in progress.
C29_Witness ==
    /\ ret.op = "execute" /\ ret.tx.action.type = "Unknown" /\ ret.res = "ok"
    /\ Game01 \in DOMAIN game_states
    /\ game_states[Game01].game.ply = 1
    /\ game_states = ret.gs0

\* C30: a failing MakeMove reports the first failing check in the order game
\* lookup, turn check, move conversion: game-not-found when the game is not in
\* the table, else not-player's-turn when the player is not the side to move,
\* else the conversion error when the move does not convert.
C30_CheckOrder ==
    (ret.op = "execute" /\ ret.tx.action.type = "MakeMove" /\ ret.res # "ok") =>
        LET a == ret.tx.action
        IN  IF a.game_id \notin DOMAIN ret.gs0
            THEN ret.res = "GameNotFound"
            ELSE IF a.player # SideToMove(ret.gs0[a.game_id])
            THEN ret.res = "NotPlayersTurn"
            ELSE IF ~convert_move(a.mv).ok
            THEN ret.res = "ConversionError"
            ELSE ret.res \notin {"GameNotFound", "NotPlayersTurn", "ConversionError"}

\* Task t has started an operation that has not returned yet.
Busy(t) == call.tasks[t].pc \notin {"idle", "done"}

\* Task t holds lock l in mode m.
Holds(t, l, m) == <<t, m>> \in call.held[l]

\* C22: no operation blocks for ever: whatever verify, accept, reject,
\* get_block, last-accepted and game operations run concurrently, a started
\* operation returns.
C22_NoBlocking ==
    \A t \in Tasks : Busy(t) ~> (call.tasks[t].pc = "done")

\* A get_block holds the read lock of the verified map and waits for the
\* database, which a write_block holds; behind it nothing can write the map.
C22_Witness ==
    \E t \in Tasks, u \in Tasks :
        /\ call.tasks[t].op = "get_block" /\ call.tasks[t].pc = "store"
        /\ Holds(t, "verified_blocks", "r") /\ ~call.tasks[t].holding
        /\ call.tasks[u].pc = "write" /\ Holds(u, "db", "w")

\* The block records there are to read: a block of LockBlocks as verified, or
\* as written by accept or reject.
WholeBlocks ==
    {set_status(b, status) :
        b \in LockBlocks, status \in {"Processing", "Accepted", "Rejected"}}

\* The positions of the game before and after the transactions of LockBlocks.
WholeGames == {ChessDefault, play(ChessDefault, convert_move(1).mv)}

\* The operation of task t returns in this step.
Returns(t) == call.tasks[t].pc # "done" /\ call'.tasks[t].pc = "done"

\* C21: get_game, game_exists and get_block running beside verify, accept,
\* reject and transaction execution see a consistent snapshot: a writer of a
\* lock holds it alone, the table, the map and the database change only under
\* their write lock, the table by one whole transaction at a time, and each
\* query returns, under its read lock, what the state holds at that moment: a
\* game as some whole transaction left it, a block record cached or written as
\* a whole.
C21_ConsistentSnapshot ==
    [][/\ \A l \in Locks : \A h \in call.held[l] :
             h[2] = "w" => call.held[l] = {h}
       /\ \A t \in Tasks : Returns(t) =>
             LET task == call'.tasks[t]
             IN  /\ task.op = "get_game" =>
                       /\ Holds(t, "game_states", "r")
                       /\ task.val.game = get_game(game_states, LockGame)
                       /\ task.val.game.some => task.val.game.game \in WholeGames
                 /\ task.op = "game_exists" =>
                       /\ Holds(t, "game_states", "r")
                       /\ task.val.has = game_exists(game_states, LockGame)
                 /\ task.op = "get_block" =>
                       /\ Holds(t, "verified_blocks", "r")
                       /\ task.val = get_block(verified_blocks, db, task.self.id)
                       /\ task.val.ok => task.val.blk \in WholeBlocks
       /\ game_states' # game_states =>
             \E t \in Tasks :
                 /\ call.held["game_states"] = {<<t, "w">>}
                 /\ game_states' = execute(game_states,
                                           call.tasks[t].self.txs[call.tasks[t].i]).games
       /\ verified_blocks' # verified_blocks =>
             \E t \in Tasks : call.held["verified_blocks"] = {<<t, "w">>}
       /\ db' # db =>
             \E t \in Tasks : call.held["db"] = {<<t, "w">>}]_vars

\* While the accept() of the child block is between its transaction and its
\* writes, a get_game has returned the game as the move left it.
C21_Witness ==
    \E t \in Tasks, u \in Tasks :
        /\ call.tasks[t].pc = "done" /\ call.tasks[t].op = "get_game"
        /\ call.tasks[t].val.game.some
        /\ call.tasks[t].val.game.game.ply = 1
        /\ call.tasks[u].op = "accept" /\ call.tasks[u].pc \in {"write", "last"}
        /\ call.tasks[u].self.id = LockChild.id

\* C31: a verify() of a block with height 0 and a parent id that is not empty,
\* whose parent is retrievable, ends with the height error whatever the
\* parent's height: it neither succeeds nor ends by arithmetic overflow.
C31_HeightLowerBound ==
    (ret.op = "verify" /\ ret.pre.zero /\ ~ret.pre.genesis /\ ~ret.pre.known
        /\ ret.pre.parent)
        => ret.res = "HeightMismatch"

\* C32: in every state, also between the steps of an accept(), a last
\* accepted id that is not empty is the id of a block that has a record in the
\* database.
C32_PointerNamesStoredBlock ==
    get_last_accepted_block_id(db) # EmptyId =>
        /\ get_last_accepted_block_id(db) \in StoredIds(db)
        /\ get_block(<<>>, db, get_last_accepted_block_id(db)).ok

\* An accept() has just set the pointer to its block and has not returned yet,
\* and the block accepted before it is still stored.
C32_Witness ==
    /\ call.op = "accept" /\ call.pc = "remove"
    /\ get_last_accepted_block_id(db) = call.self.id
    /\ call.self.height = 1
    /\ call.self.parent_id \in StoredIds(db)

\* C33: a block that get_block finds is found in every later state, at every
\* point of concurrent accept() and reject() calls; a verify() that returns
\* success leaves its block retrievable, and a get_block call fails only when
\* the block is in neither the verified map nor the database.
C33_StaysRetrievable ==
    [][/\ \A b \in LockBlocks :
             get_block(verified_blocks, db, b.id).ok
                => get_block(verified_blocks', db', b.id).ok
       /\ \A t \in Tasks : Returns(t) =>
             LET task == call'.tasks[t]
             IN  /\ (task.op = "verify" /\ task.res = "ok") =>
                       get_block(verified_blocks', db', task.self.id).ok
                 /\ task.op = "get_block" =>
                       (task.res = "ok")
                          = get_block(verified_blocks, db, task.self.id).ok]_vars

\* A reject() or accept() has failed on its put and its block is still in the
\* verified map only, where a get_block has found it.
C33_Witness ==
    \E t \in Tasks, u \in Tasks :
        /\ call.tasks[u].op \in {"accept", "reject"} /\ call.tasks[u].pc = "done"
        /\ call.tasks[u].res = "PutFailed"
        /\ call.tasks[u].self.id \in DOMAIN verified_blocks
        /\ call.tasks[u].self.id \notin StoredIds(db)
        /\ call.tasks[t].op = "get_block" /\ call.tasks[t].pc = "done"
        /\ call.tasks[t].res = "ok"
        /\ call.tasks[t].self.id = call.tasks[u].self.id

\* C34: every block in the verified map is genesis-shaped (height 0, empty
\* parent id) or has a parent that get_block finds, one lower in height and
\* not later in timestamp.
C34_CachedBlocksChained ==
    \A blk_id \in DOMAIN verified_blocks :
        LET blk == verified_blocks[blk_id]
            prnt == get_block(verified_blocks, db, blk.parent_id)
        IN  \/ blk.height = 0 /\ blk.parent_id = EmptyId
            \/ /\ prnt.ok
               /\ prnt.blk.height + 1 = blk.height
               /\ prnt.blk.timestamp <= blk.timestamp

\* A block of height 1 is in the verified map and its parent has been
\* rejected and evicted.
C34_Witness ==
    \E blk_id \in DOMAIN verified_blocks :
        LET blk == verified_blocks[blk_id]
        IN  /\ blk.height = 1
            /\ blk.parent_id \in StoredIds(db) \ DOMAIN verified_blocks
            /\ StoredStatus(db, blk.parent_id) = "Rejected"

\* C35: whenever get_last_accepted_block_id gives an id, get_block of that id
\* gives the block with status Accepted, also while the accept() that set the
\* pointer is still running.
C35_LastAcceptedIsAccepted ==
    has_last_accepted_block(db) =>
        /\ get_block(verified_blocks, db, get_last_accepted_block_id(db)).ok
        /\ get_block(verified_blocks, db, get_last_accepted_block_id(db)).blk.status
              = "Accepted"

\* C36: after accept() has returned an error the block is not reported as
\* accepted: the status of the block object is not Accepted, and get_block of
\* its id does not give status Accepted.
C36_FailedAcceptNotAccepted ==
    (call = Idle /\ ret.op = "accept" /\ ret.res # "ok") =>
        /\ ret.status # "Accepted"
        /\ get_block(verified_blocks, db, ret.id).ok =>
              get_block(verified_blocks, db, ret.id).blk.status # "Accepted"

\* C37: in a game of two different addresses the moves applied alternate,
\* white first: a CreateGame leaves the game with no move applied, and the
\* move applied when n moves have been applied since is by white if n is
\* even and by black if n is odd, whatever the order in which concurrent
\* make_move calls get the lock.
C37_Alternation ==
    [][\A g \in (DOMAIN game_states) \cap (DOMAIN game_states') :
          LET e == game_states[g]
              f == game_states'[g]
          IN  (e.white # e.black /\ f # e) =>
                 \/ /\ call = Idle
                    /\ ret'.op = "execute" /\ ret'.tx.action.type = "CreateGame"
                    /\ f.game = ChessDefault /\ f.game.ply = 0
                 \/ /\ call.op = "make_move" /\ g = call.game_id
                    /\ \E t \in 1..2 :
                          /\ call.tasks[t].pc = "lock"
                          /\ call'.tasks[t].pc = "done"
                          /\ call.tasks[t].player =
                                (IF e.game.ply % 2 = 0 THEN e.white ELSE e.black)
                    /\ f.game.ply = e.game.ply + 1
                    /\ f.white = e.white /\ f.black = e.black]_vars

\* Two concurrent calls on a fresh game, one by black and one by white, have
\* both been applied: white's first, then black's.
C37_Witness ==
    /\ BothDone
    /\ call.game_id = Game01
    /\ Game01 \in DOMAIN call.gs0
    /\ call.gs0[Game01].game = ChessDefault
    /\ call.tasks[1].player = 1 /\ call.tasks[1].res = "ok"
    /\ call.tasks[2].player = 0 /\ call.tasks[2].res = "ok"
    /\ game_states[Game01].game.ply = 2

\* C38: every entry of the game table is stored under the game id of its own
\* white and black, in every state a step leads to; and a MakeMove keeps every
\* game of the table in the table with its white and black as they were.
C38_KeyMatchesPlayers ==
    [][/\ \A k \in DOMAIN game_states' :
             k = calculate_game_id(game_states'[k].white, game_states'[k].black)
       /\ (ret'.op = "execute" /\ ret'.tx.action.type = "MakeMove"
              /\ game_states' # game_states) =>
             /\ DOMAIN game_states' = DOMAIN game_states
             /\ \A k \in DOMAIN game_states :
                   /\ game_states'[k].white = game_states[k].white
                   /\ game_states'[k].black = game_states[k].black]_vars

\* A move of white has been applied to the game of (1, 0) while the game of
\* (0, 1) is in the table too.
C38_Witness ==
    /\ ret.op = "execute" /\ ret.tx.action.type = "MakeMove" /\ ret.res = "ok"
    /\ ret.tx.action.game_id = calculate_game_id(1, 0)
    /\ ret.tx.action.player = 1
    /\ Game01 \in DOMAIN game_states
    /\ calculate_game_id(1, 0) \in DOMAIN ret.gs0
    /\ game_states[calculate_game_id(1, 0)].game.ply
          = ret.gs0[calculate_game_id(1, 0)].game.ply + 1
    /\ game_states[calculate_game_id(1, 0)].white = 1
    /\ game_states[calculate_game_id(1, 0)].black = 0

\* The game id a transaction is about.
TargetGame(tx) ==
    IF tx.action.type = "CreateGame"
    THEN calculate_game_id(tx.action.white, tx.action.black)
    ELSE tx.action.game_id

\* C39: a CreateGame, MakeMove or EndGame about game id g leaves every other
\* game as it was, in the table or out of it, and the execution of a
\* transaction changes neither the database (block records and last-accepted
\* pointer) nor the verified map.
C39_GamesIndependent ==
    [][(ret' # ret /\ ret'.op = "execute"
          /\ ret'.tx.action.type \in {"CreateGame", "MakeMove", "EndGame"}) =>
          /\ \A g \in GameIds \ {TargetGame(ret'.tx)} :
                /\ (g \in DOMAIN game_states') = (g \in DOMAIN game_states)
                /\ g \in DOMAIN game_states => game_states'[g] = game_states[g]
          /\ UNCHANGED <<db, verified_blocks>>]_vars

\* The game of (0, 1) has been ended while the game of (1, 0), with a move
\* applied, stays in the table.
C39_Witness ==
    /\ ret.op = "execute" /\ ret.tx.action.type = "EndGame" /\ ret.res = "ok"
    /\ ret.tx.action.game_id = Game01
    /\ Game01 \in DOMAIN ret.gs0
    /\ Game01 \notin DOMAIN game_states
    /\ calculate_game_id(1, 0) \in DOMAIN game_states
    /\ game_states[calculate_game_id(1, 0)].game.ply = 1
    /\ game_states[calculate_game_id(1, 0)] = ret.gs0[calculate_game_id(1, 0)]

\* C40: the persistent record only grows: once there is a last accepted block
\* there is one in every later state, a block record of the database is never
\* removed, and the last-accepted pointer changes only in the
\* set_last_accepted_block step of an accept() whose block record is written,
\* to the id of that block.
C40_RecordOnlyGrows ==
    [][/\ has_last_accepted_block(db) => has_last_accepted_block(db')
       /\ StoredIds(db) \subseteq StoredIds(db')
       /\ get_last_accepted_block_id(db') # get_last_accepted_block_id(db) =>
             /\ call.op = "accept" /\ call.pc = "last"
             /\ call.self.id \in StoredIds(db)
             /\ StoredStatus(db, call.self.id) = "Accepted"
             /\ get_last_accepted_block_id(db') = call.self.id]_vars

\* After a block was accepted, another block has been rejected: both records
\* are in the database and the pointer still names the accepted one.
C40_Witness ==
    /\ call = Idle /\ ret.op = "reject" /\ ret.res = "ok"
    /\ has_last_accepted_block(db)
    /\ get_last_accepted_block_id(db) # ret.id
    /\ {ret.id, get_last_accepted_block_id(db)} \subseteq StoredIds(db)
    /\ StoredStatus(db, ret.id) = "Rejected"
    /\ StoredStatus(db, get_last_accepted_block_id(db)) = "Accepted"

====
